---- MODULE Spec2Model ----
(***************************************************************************)
(* Model of the n-back video processing script (process_data_raw.py) and   *)
(* of the score accumulator (lib/dataprocessing/statistics.py).            *)
(*                                                                         *)
(* Three specifications share the variables of this module:                *)
(*   Spec       one run of process_data_raw.py, from the construction of   *)
(*              ExperimentData (line 109) to the last print (line 161);    *)
(*   SpecStats  a Statistics object receiving add_subject_data and         *)
(*              average_scores_all_subjects calls;                         *)
(*   SpecDetect the region detector's fallback policy over FrameChunks.    *)
(* ExperimentData and VideoHandler are used by the sources but are not     *)
(* part of them; their behaviour is taken from the specification.          *)
(***************************************************************************)
EXTENDS Integers, Sequences, FiniteSets, TLC

VARIABLES
    \* ---- process_data_raw.py ----
    lecture_video,   \* arguments.lecture_video (line 80)
    method,          \* arguments.ProcessingMethod (line 76)
    cropsize,        \* int(arguments.crop) (line 79)
    session,         \* the experiment log found in exp_data_path (line 90)
    pc,              \* position of the script
    n,               \* loop variable of line 127
    i,               \* loop variable of line 133
    trials,          \* trials (line 130)
    frames,          \* frames (lines 136, 156)
    pre,             \* what output_path/participant held when the run started
    disk,            \* files under output_path/participant: file -> content
    written,         \* the files the run has opened for writing
    decoder,         \* the trials whose process_frames call is in progress
    order,           \* the trials whose extraction was started, in call order
    extractCalls,    \* number of process_frames calls made
    getTrialsCalls,  \* number of exp_data.get_trials calls made
    failStage,       \* the statement whose exception ended the run, or "none"
    failTrial,       \* the trial being processed when the run was ended
    \* ---- Statistics ----
    data,            \* Statistics.__data
    added,           \* the subjects passed to add_subject_data, in call order
    avgOut,          \* the last value returned by average_scores_all_subjects
    lastOp,          \* the last method called on the Statistics object
    \* ---- region detector ----
    chunkNo,         \* number of FrameChunks started
    chunkIn,         \* the detections of the frames of the current chunk
    chunkOut,        \* the boxes produced for the frames of the current chunk
    lastBox,         \* the most recent successful detection kept by the detector
    prevBoxes        \* the boxes detected in earlier chunks

pipeVars == <<lecture_video, method, cropsize, session, pc, n, i, trials, frames,
              pre, disk, written, decoder, order, extractCalls, getTrialsCalls, failStage, failTrial>>
statsVars == <<data, added, avgOut, lastOp>>
detVars == <<chunkNo, chunkIn, chunkOut, lastBox, prevBoxes>>
vars == <<pipeVars, statsVars, detVars>>

(***************************************************************************)
(* Program constants and bounds                                            *)
(***************************************************************************)
\* range(1,6) of lines 127 (script) and 52, 81 (Statistics): levels 1..5
NumLevels == 5
\* trials per level: the factor 5 of ((n-1)*5)+i and of the slice (n-1)*5:(n-1)*5+5
TrialsPerLevel == 5
\* scores are drawn from 0..MaxScore
MaxScore == 2
\* trial windows last 1..MaxDur time units
MaxDur == 1
\* the default of --crop (line 66)
DefaultCrop == 64
\* at most MaxSubjects subjects are added to a Statistics object
MaxSubjects == 4
\* a FrameChunk holds at most MaxChunkLen frames
MaxChunkLen == 3
\* at most MaxChunks FrameChunks are processed
MaxChunks == 2
\* detected boxes are drawn from 1..MaxBox
MaxBox == 2

Levels == 1..NumLevels
Trials == Levels \X (0..(TrialsPerLevel - 1))
Methods == {"face", "eye", "opticalflow"}
\* crop sizes given: the smallest one the assertion of line 87 accepts, and the
\* default
CropSizes == {1, DefaultCrop}

(***************************************************************************)
(* The experiment log and ExperimentData                                   *)
(***************************************************************************)
\* A log: whether it parses, how many trials it records per level, whether it
\* records a lecture segment, and the parameters a, dur its scores and
\* timestamps are generated from.
ValidSessions ==
    [parsable : {TRUE}, count : {[l \in Levels |-> TrialsPerLevel]}, lecture : BOOLEAN,
     a : 0..MaxScore, dur : 1..MaxDur]

MalformedSessions ==
    {[parsable |-> FALSE, count |-> [l \in Levels |-> TrialsPerLevel], lecture |-> TRUE,
      a |-> 1, dur |-> 1]}
    \cup {[parsable |-> TRUE,
           count |-> [l \in Levels |-> IF l = bad THEN c ELSE TrialsPerLevel],
           lecture |-> TRUE, a |-> 1, dur |-> 1] :
          bad \in Levels, c \in {TrialsPerLevel - 1, TrialsPerLevel + 1}}

Sessions == ValidSessions \cup MalformedSessions

\* score, start and end of the i-th trial of level l as recorded in the log
Score(s, l, k) == (s.a * (2 * l + k)) % (MaxScore + 1)
Start(s, l, k) == ((l - 1) * TrialsPerLevel + k) * (s.dur + 1)
End(s, l, k) == Start(s, l, k) + s.dur

\* ExperimentMetadataReader.load: fails if the log is unparsable or some level
\* does not have exactly 5 trials
Malformed(s) == ~s.parsable \/ \E l \in Levels : s.count[l] # TrialsPerLevel

\* ExperimentData.get_trials(n): the trials of level l, ordered by trial index
get_trials(s, l) ==
    [k \in 1..(IF s.parsable THEN s.count[l] ELSE 0) |->
        [start |-> Start(s, l, k - 1), end |-> End(s, l, k - 1), score |-> Score(s, l, k - 1)]]

\* ExperimentData.get_video_lecture_timestamps(): the lecture window
get_video_lecture_timestamps(s) ==
    <<Start(s, NumLevels + 1, 0), End(s, NumLevels + 1, 0)>>

(***************************************************************************)
(* process_data_raw.py                                                     *)
(***************************************************************************)
\* method_functions (lines 113-117)
method_functions ==
    [face |-> "get_frames", eye |-> "get_eye_frames", opticalflow |-> "get_optical_flow_frames"]

\* the value process_frames(start, end, cropsize) returns (lines 118, 136, 156)
process_frames(m, start, end, crop) ==
    [fn |-> method_functions[m], start |-> start, end |-> end, crop |-> crop]

\* str.format of an integer
Str(k) == CASE k = 0 -> "0" [] k = 1 -> "1" [] k = 2 -> "2" [] k = 3 -> "3" [] k = 4 -> "4"
            [] k = 5 -> "5" [] k = 6 -> "6" [] k = 7 -> "7" [] k = 8 -> "8" [] k = 9 -> "9"
            [] OTHER -> "?"

\* variant: the trial index is left out of the name
TrialName_SameForAllIndices(l, k, m) == <<Str(l), "-", m>>
\* '{}-{}-{}'.format(n, i, method) (line 139)
TrialName(l, k, m) == <<Str(l), "-", Str(k), "-", m>>

\* '{}_lecture_video'.format(method) (line 158)
LectureName(m) == <<m, "_lecture_video">>

\* '{}.npy'.format(out) and '{}.json'.format(out) (lines 141, 143, 159)
File(base, ext) == [base |-> base, ext |-> ext]

\* the dictionary dumped at lines 144-147
Label(l, trial) == [n |-> l, score |-> trial.score]

NoFrames == [fn |-> "none", start |-> 0, end |-> 0, crop |-> 0]

\* The content of a file: "complete" with the value a finished write left,
\* "truncated" when the file was created and the write then failed, "stale"
\* for what the directory held before the run.
Complete(v) == [state |-> "complete", value |-> v]
Truncated == [state |-> "truncated", value |-> NoFrames]
Stale == [state |-> "stale", value |-> NoFrames]

EmptyDisk == [f \in {} |-> Stale]
WriteFile(d, f, content) == [g \in DOMAIN d \cup {f} |-> IF g = f THEN content ELSE d[g]]

\* another processing method than m
OtherMethod(m) == IF m = "face" THEN "eye" ELSE "face"

\* What output_path/participant can hold when os.makedirs(..., exist_ok=True)
\* (line 121) accepts it: nothing; the pair of an earlier run with another
\* method and a foreign file; a label of this method without its tensor; files
\* of an earlier run with this method.
ExistingDirs(m) ==
    {{},
     {File(TrialName(1, 0, OtherMethod(m)), "npy"), File(TrialName(1, 0, OtherMethod(m)), "json"),
      File(<<"notes">>, "txt")},
     {File(TrialName(NumLevels, TrialsPerLevel - 1, m), "json")},
     {File(TrialName(1, 0, m), "npy"), File(TrialName(1, 0, m), "json"),
      File(LectureName(m), "npy")}}

\* np.save(file, v) and open(file, 'w') + json.dump(v): the file is created and
\* fully written
WriteOk(f, v) ==
    /\ disk' = WriteFile(disk, f, Complete(v))
    /\ written' = written \cup {f}

\* the write fails: either open() fails and nothing changes, or the file is
\* created (emptied) and a later write or the close fails
WriteFails(f) ==
    \/ /\ disk' = disk
       /\ written' = written
    \/ /\ disk' = WriteFile(disk, f, Truncated)
       /\ written' = written \cup {f}

\* variant: the label is written before the tensor
SerializeOrder_LabelFirst == <<"label", "save">>
\* the order of the two writes of a trial: np.save (line 141), then json.dump
\* (lines 143-147)
SerializeOrder == <<"save", "label">>

\* an uncaught exception ends the script
Raise(stage) ==
    /\ pc' = "aborted"
    /\ failStage' = stage
    /\ failTrial' = <<n, i>>

NoRaise == UNCHANGED <<failStage, failTrial>>

\* the for statement of line 127: n is bound to level l and the body starts at
\* line 128, or the loop is exhausted and line 161 is next
EnterLevel(l) ==
    IF l <= NumLevels
    THEN /\ n' = l
         /\ pc' = "get_trials"
    ELSE /\ n' = n
         /\ pc' = "finish"

\* the for statement of line 133 after a loop body: i is bound to the next
\* trial and the body starts at line 134, else the next level (line 127)
Advance ==
    IF i + 1 < Len(trials)
    THEN /\ i' = i + 1
         /\ pc' = "extract"
         /\ n' = n
    ELSE /\ i' = i
         /\ EnterLevel(n + 1)

\* what follows a successful write at position p of the trial body
AfterWrite(p) ==
    IF p = SerializeOrder[1]
    THEN /\ pc' = SerializeOrder[2]
         /\ UNCHANGED <<n, i>>
    ELSE Advance

\* variant: a failed load is swallowed and the script goes on
LoadMetadata_IgnoresFailure ==
    /\ pc = "load"
    /\ UNCHANGED <<disk, written>>
    /\ IF lecture_video
       THEN /\ pc' = "lecture_ts"
            /\ n' = n
       ELSE EnterLevel(1)
    /\ NoRaise
    /\ UNCHANGED <<lecture_video, method, cropsize, session, pre, i, trials, frames,
                   decoder, order, extractCalls, getTrialsCalls>>
    /\ UNCHANGED <<statsVars, detVars>>
\* lines 109-125: construct ExperimentData (line 109, raises on a malformed
\* log), construct VideoHandler and create the participant directory (lines
\* 110-121, either can raise), branch on lecture_video (line 123), print the
\* heading of the trial mode (line 125, raises when stdout cannot be written)
LoadMetadata ==
    /\ pc = "load"
    /\ UNCHANGED <<disk, written>>
    /\ IF Malformed(session)
       THEN /\ Raise("load")
            /\ n' = n
       ELSE \/ /\ IF lecture_video
                  THEN /\ pc' = "lecture_ts"
                       /\ n' = n
                  ELSE EnterLevel(1)
               /\ NoRaise
            \/ /\ Raise("setup")
               /\ n' = n
            \/ /\ ~lecture_video
               /\ Raise("print")
               /\ n' = n
    /\ UNCHANGED <<lecture_video, method, cropsize, session, pre, i, trials, frames,
                   decoder, order, extractCalls, getTrialsCalls>>
    /\ UNCHANGED <<statsVars, detVars>>

\* lines 128-133: print the level (line 128, raises when stdout cannot be
\* written, before get_trials is called), get_trials (line 130) and the start
\* of the for statement of line 133
GetTrials ==
    /\ pc = "get_trials"
    /\ \/ /\ trials' = get_trials(session, n)
          /\ getTrialsCalls' = getTrialsCalls + 1
          /\ IF Len(get_trials(session, n)) > 0
             THEN /\ i' = 0
                  /\ pc' = "extract"
                  /\ n' = n
             ELSE /\ i' = i
                  /\ EnterLevel(n + 1)
          /\ NoRaise
       \/ /\ Raise("print")
          /\ UNCHANGED <<trials, getTrialsCalls, n, i>>
    /\ UNCHANGED <<lecture_video, method, cropsize, session, pre, frames, disk, written,
                   decoder, order, extractCalls>>
    /\ UNCHANGED <<statsVars, detVars>>

\* lines 134-136: print the trial (line 134, raises when stdout cannot be
\* written, before process_frames is called); process_frames is called and
\* takes the video decoder (line 136)
ExtractBegin ==
    /\ pc = "extract"
    /\ \/ /\ pc' = "extracting"
          /\ decoder' = decoder \cup {<<n, i>>}
          /\ order' = Append(order, <<n, i>>)
          /\ extractCalls' = extractCalls + 1
          /\ NoRaise
       \/ /\ Raise("print")
          /\ UNCHANGED <<decoder, order, extractCalls>>
    /\ UNCHANGED <<lecture_video, method, cropsize, session, pre, n, i, trials, frames,
                   disk, written, getTrialsCalls>>
    /\ UNCHANGED <<statsVars, detVars>>

\* variant: every trial is extracted over the window of the level's first trial
ExtractEnd_FirstTrialWindow ==
    /\ pc = "extracting"
    /\ decoder' = decoder \ {<<n, i>>}
    /\ frames' = process_frames(method, trials[1].start, trials[1].end, cropsize)
    /\ pc' = SerializeOrder[1]
    /\ NoRaise
    /\ UNCHANGED <<lecture_video, method, cropsize, session, pre, n, i, trials, disk, written,
                   order, extractCalls, getTrialsCalls>>
    /\ UNCHANGED <<statsVars, detVars>>
\* line 136: process_frames returns the frames of the trial's window, or raises
\* (window beyond the video's duration, decode error)
ExtractEnd ==
    /\ pc = "extracting"
    /\ decoder' = decoder \ {<<n, i>>}
    /\ \/ /\ frames' = process_frames(method, trials[i + 1].start, trials[i + 1].end, cropsize)
          /\ pc' = SerializeOrder[1]
          /\ NoRaise
          /\ UNCHANGED <<n, i>>
       \/ /\ Raise("extract")
          /\ UNCHANGED <<frames, n, i>>
    /\ UNCHANGED <<lecture_video, method, cropsize, session, pre, trials, disk, written,
                   order, extractCalls, getTrialsCalls>>
    /\ UNCHANGED <<statsVars, detVars>>

\* variant: a failed np.save is caught and the loop goes on with the next trial
SaveTensor_SkipsFailedTrial ==
    /\ pc = "save"
    /\ \/ /\ WriteOk(File(TrialName(n, i, method), "npy"), frames)
          /\ AfterWrite("save")
          /\ NoRaise
       \/ /\ WriteFails(File(TrialName(n, i, method), "npy"))
          /\ failStage' = "save"
          /\ failTrial' = <<n, i>>
          /\ Advance
    /\ UNCHANGED <<lecture_video, method, cropsize, session, pre, trials, frames,
                   decoder, order, extractCalls, getTrialsCalls>>
    /\ UNCHANGED <<statsVars, detVars>>
\* lines 139-141: np.save of the trial's frames, or a write failure
SaveTensor ==
    /\ pc = "save"
    /\ \/ /\ WriteOk(File(TrialName(n, i, method), "npy"), frames)
          /\ AfterWrite("save")
          /\ NoRaise
       \/ /\ WriteFails(File(TrialName(n, i, method), "npy"))
          /\ Raise("save")
          /\ UNCHANGED <<n, i>>
    /\ UNCHANGED <<lecture_video, method, cropsize, session, pre, trials, frames,
                   decoder, order, extractCalls, getTrialsCalls>>
    /\ UNCHANGED <<statsVars, detVars>>

\* lines 143-147: json.dump of the trial's label, or a write failure
WriteLabel ==
    /\ pc = "label"
    /\ \/ /\ WriteOk(File(TrialName(n, i, method), "json"), Label(n, trials[i + 1]))
          /\ AfterWrite("label")
          /\ NoRaise
       \/ /\ WriteFails(File(TrialName(n, i, method), "json"))
          /\ Raise("label")
          /\ UNCHANGED <<n, i>>
    /\ UNCHANGED <<lecture_video, method, cropsize, session, pre, trials, frames,
                   decoder, order, extractCalls, getTrialsCalls>>
    /\ UNCHANGED <<statsVars, detVars>>

\* lines 151-154: print the heading of the lecture mode (line 151, raises
\* when stdout cannot be written), then the lecture window or
\* MissingSegmentError (line 154)
LectureTimestamps ==
    /\ pc = "lecture_ts"
    /\ \/ IF session.lecture
          THEN /\ pc' = "lecture_extract"
               /\ NoRaise
          ELSE Raise("lecture_ts")
       \/ Raise("print")
    /\ UNCHANGED <<lecture_video, method, cropsize, session, pre, n, i, trials, frames, disk, written,
                   decoder, order, extractCalls, getTrialsCalls>>
    /\ UNCHANGED <<statsVars, detVars>>

\* line 156: process_frames over the lecture window, or a failure
LectureExtract ==
    /\ pc = "lecture_extract"
    /\ extractCalls' = extractCalls + 1
    /\ \/ /\ frames' = process_frames(method, get_video_lecture_timestamps(session)[1],
                                      get_video_lecture_timestamps(session)[2], cropsize)
          /\ pc' = "lecture_save"
          /\ NoRaise
       \/ /\ Raise("extract")
          /\ frames' = frames
    /\ UNCHANGED <<lecture_video, method, cropsize, session, pre, n, i, trials, disk, written,
                   decoder, order, getTrialsCalls>>
    /\ UNCHANGED <<statsVars, detVars>>

\* variant: the lecture tensor is written together with a label file
LectureSave_WithLabel ==
    /\ pc = "lecture_save"
    /\ disk' = WriteFile(WriteFile(disk, File(LectureName(method), "npy"), Complete(frames)),
                         File(LectureName(method), "json"), Complete([n |-> 0, score |-> 0]))
    /\ written' = written \cup {File(LectureName(method), "npy"), File(LectureName(method), "json")}
    /\ pc' = "finish"
    /\ NoRaise
    /\ UNCHANGED <<lecture_video, method, cropsize, session, pre, n, i, trials, frames,
                   decoder, order, extractCalls, getTrialsCalls>>
    /\ UNCHANGED <<statsVars, detVars>>
\* lines 158-159: np.save of the lecture frames, or a write failure
LectureSave ==
    /\ pc = "lecture_save"
    /\ \/ /\ WriteOk(File(LectureName(method), "npy"), frames)
          /\ pc' = "finish"
          /\ NoRaise
       \/ /\ WriteFails(File(LectureName(method), "npy"))
          /\ Raise("save")
    /\ UNCHANGED <<lecture_video, method, cropsize, session, pre, n, i, trials, frames,
                   decoder, order, extractCalls, getTrialsCalls>>
    /\ UNCHANGED <<statsVars, detVars>>

\* line 161: the closing print; the script ends normally, or the print raises
\* when stdout cannot be written, after every file has been written
Finish ==
    /\ pc = "finish"
    /\ \/ /\ pc' = "done"
          /\ NoRaise
       \/ Raise("print")
    /\ UNCHANGED <<lecture_video, method, cropsize, session, pre, n, i, trials, frames, disk,
                   written, decoder, order, extractCalls, getTrialsCalls>>
    /\ UNCHANGED <<statsVars, detVars>>

\* the state at line 108: arguments parsed and checked, nothing written yet;
\* the participant directory may exist and hold files
PipeInit ==
    /\ lecture_video \in BOOLEAN
    /\ method \in Methods
    /\ cropsize \in CropSizes
    /\ session \in Sessions
    /\ pc = "load"
    /\ n = 0
    /\ i = 0
    /\ trials = <<>>
    /\ frames = NoFrames
    /\ pre \in ExistingDirs(method)
    /\ disk = [f \in pre |-> Stale]
    /\ written = {}
    /\ decoder = {}
    /\ order = <<>>
    /\ extractCalls = 0
    /\ getTrialsCalls = 0
    /\ failStage = "none"
    /\ failTrial = <<0, 0>>

\* the script is not running
PipeIdle ==
    /\ lecture_video = FALSE
    /\ method = "face"
    /\ cropsize = 1
    /\ session = CHOOSE s \in ValidSessions : TRUE
    /\ pc = "idle"
    /\ n = 0
    /\ i = 0
    /\ trials = <<>>
    /\ frames = NoFrames
    /\ pre = {}
    /\ disk = EmptyDisk
    /\ written = {}
    /\ decoder = {}
    /\ order = <<>>
    /\ extractCalls = 0
    /\ getTrialsCalls = 0
    /\ failStage = "none"
    /\ failTrial = <<0, 0>>

(***************************************************************************)
(* Statistics (lib/dataprocessing/statistics.py)                           *)
(***************************************************************************)
\* An array is [ndim, rows]: rows is the sequence of its rows, each a function
\* from column index (from 0) to value; a one-dimensional array is one row.

\* np.array([False]) (line 31)
Sentinel == [ndim |-> 1, rows |-> <<[c \in 0..0 |-> 0]>>]

\* the logs add_subject_data is given
Subjects == {s \in ValidSessions : s.lecture /\ s.dur = 1}

\* the column written at line 56
Col(l, k) == ((l - 1) * TrialsPerLevel) + k

\* lines 49-56: a row of 25 zeros, then one score per trial of every level
SubjectRow(s) ==
    [c \in 0..(NumLevels * TrialsPerLevel - 1) |->
        IF \E l \in Levels : \E k \in 1..Len(get_trials(s, l)) : Col(l, k - 1) = c
        THEN LET l == CHOOSE l \in Levels : \E k \in 1..Len(get_trials(s, l)) : Col(l, k - 1) = c
                 k == CHOOSE k \in 1..Len(get_trials(s, l)) : Col(l, k - 1) = c
             IN  get_trials(s, l)[k].score
        ELSE 0]

\* ndarray.any() (line 59)
AnyNonZero(d) == \E r \in 1..Len(d.rows) : \E c \in DOMAIN d.rows[r] : d.rows[r][c] # 0

RECURSIVE SumCols(_, _, _)
SumCols(row, lo, hi) == IF lo >= hi THEN 0 ELSE row[lo] + SumCols(row, lo + 1, hi)

\* np.mean over the columns lo..hi-1 of a row: the sum divided by the count
Mean(row, lo, hi) == [sum |-> SumCols(row, lo, hi), count |-> hi - lo]

\* lines 77-85; a one-dimensional array has no axis 1 and np.mean raises
average_scores_all_subjects(d) ==
    IF d.ndim = 1
    THEN [ok |-> FALSE, rows |-> <<>>]
    ELSE [ok |-> TRUE,
          rows |-> [j \in 1..Len(d.rows) |->
                       [l \in Levels |-> Mean(d.rows[j], (l - 1) * TrialsPerLevel,
                                              (l - 1) * TrialsPerLevel + TrialsPerLevel)]]]

\* Statistics.add_subject_data (lines 35-62)
add_subject_data(s) ==
    /\ Len(added) < MaxSubjects
    /\ data' = IF AnyNonZero(data)
               THEN [ndim |-> 2, rows |-> Append(data.rows, SubjectRow(s))]
               ELSE [ndim |-> 2, rows |-> <<SubjectRow(s)>>]
    /\ added' = Append(added, s)
    /\ lastOp' = "add"
    /\ UNCHANGED avgOut
    /\ UNCHANGED <<pipeVars, detVars>>

\* Statistics.average_scores_all_subjects (lines 66-85)
AverageScores ==
    /\ avgOut' = average_scores_all_subjects(data)
    /\ lastOp' = "avg"
    /\ UNCHANGED <<data, added>>
    /\ UNCHANGED <<pipeVars, detVars>>

\* Statistics.__init__ (lines 25-31)
StatsInit ==
    /\ data = Sentinel
    /\ added = <<>>
    /\ avgOut = [ok |-> FALSE, rows |-> <<>>]
    /\ lastOp = "init"

(***************************************************************************)
(* Region detector fallback policy (VideoHandler.get_frames and            *)
(* get_eye_frames, reached through method_functions)                       *)
(***************************************************************************)
\* boxes a detection can return
Boxes == 1..MaxBox
\* the centered box covering the full frame
CenteredBox == 0
\* no detection succeeded yet
NoBox == -1

\* what a frame of a chunk can be: detection found a box, or failed
Detections == [found : {TRUE}, box : Boxes] \cup {[found |-> FALSE, box |-> NoBox]}

\* variant: the last detection of the previous chunk is kept
BeginChunk_KeepsLastBox ==
    /\ chunkNo < MaxChunks
    /\ chunkNo' = chunkNo + 1
    /\ chunkIn' = <<>>
    /\ chunkOut' = <<>>
    /\ lastBox' = lastBox
    /\ prevBoxes' = prevBoxes \cup {chunkIn[f].box : f \in {g \in 1..Len(chunkIn) : chunkIn[g].found}}
    /\ UNCHANGED <<pipeVars, statsVars>>
\* a new FrameChunk is taken: no detection of an earlier chunk is kept
BeginChunk ==
    /\ chunkNo < MaxChunks
    /\ chunkNo' = chunkNo + 1
    /\ chunkIn' = <<>>
    /\ chunkOut' = <<>>
    /\ lastBox' = NoBox
    /\ prevBoxes' = prevBoxes \cup {chunkIn[f].box : f \in {g \in 1..Len(chunkIn) : chunkIn[g].found}}
    /\ UNCHANGED <<pipeVars, statsVars>>

\* the box used for a frame whose detection is det
Fallback(det, last) ==
    IF det.found THEN det.box
    ELSE IF last # NoBox THEN last
    ELSE CenteredBox

\* one frame of the current chunk is detected and given its box
DetectFrame(det) ==
    /\ chunkNo >= 1
    /\ Len(chunkIn) < MaxChunkLen
    /\ chunkIn' = Append(chunkIn, det)
    /\ chunkOut' = Append(chunkOut, Fallback(det, lastBox))
    /\ lastBox' = IF det.found THEN det.box ELSE lastBox
    /\ UNCHANGED <<chunkNo, prevBoxes>>
    /\ UNCHANGED <<pipeVars, statsVars>>

\* the detector before its first chunk: nothing detected yet
DetInit ==
    /\ chunkNo = 0
    /\ chunkIn = <<>>
    /\ chunkOut = <<>>
    /\ lastBox = NoBox
    /\ prevBoxes = {}

\* the script starts; no Statistics call and no detection is made in a run
Init == PipeInit /\ StatsInit /\ DetInit

Next ==
    \/ LoadMetadata
    \/ GetTrials
    \/ ExtractBegin
    \/ ExtractEnd
    \/ SaveTensor
    \/ WriteLabel
    \/ LectureTimestamps
    \/ LectureExtract
    \/ LectureSave
    \/ Finish

Spec == Init /\ [][Next]_vars

\* a Statistics object is constructed; the script is not running
InitStats == PipeIdle /\ StatsInit /\ DetInit

NextStats ==
    \/ \E s \in Subjects : add_subject_data(s)
    \/ AverageScores

SpecStats == InitStats /\ [][NextStats]_vars

\* the detector before its first chunk
InitDetect == PipeIdle /\ StatsInit /\ DetInit

NextDetect ==
    \/ BeginChunk
    \/ \E det \in Detections : DetectFrame(det)

SpecDetect == InitDetect /\ [][NextDetect]_vars

(***************************************************************************)
(* Properties                                                              *)
(***************************************************************************)
TensorFile(t) == File(TrialName(t[1], t[2], method), "npy")
LabelFile(t) == File(TrialName(t[1], t[2], method), "json")
\* a file of that name is in the directory, whoever wrote it
HasTensor(t) == TensorFile(t) \in DOMAIN disk
HasLabel(t) == LabelFile(t) \in DOMAIN disk
\* the run has written the file completely
WroteTensor(t) == TensorFile(t) \in written /\ disk[TensorFile(t)].state = "complete"
WroteLabel(t) == LabelFile(t) \in written /\ disk[LabelFile(t)].state = "complete"
WrotePair(t) == WroteTensor(t) /\ WroteLabel(t)
\* the files the run did not touch are as they were when it started
OthersUntouched ==
    /\ DOMAIN disk = pre \cup written
    /\ \A f \in pre \ written : disk[f] = Stale

\* the trials in the order level 1..5 and, within a level, index 0..4
\* ProcessingOrder(k) is the k-th trial of that order
ProcessingOrder(k) == <<((k - 1) \div TrialsPerLevel) + 1, (k - 1) % TrialsPerLevel>>

\* C1: in trial mode a failing frame extraction of one trial does not abort the
\* run: the failing trial is recorded and has no artifact, and when the run
\* ends each of the other 24 trials has its tensor and its label.
C1_ExtractionFailureIsSkipped ==
    (~lecture_video /\ failStage = "extract") =>
        /\ pc # "aborted"
        /\ TensorFile(failTrial) \notin written /\ LabelFile(failTrial) \notin written
        /\ pc = "done" => \A t \in Trials \ {failTrial} : WrotePair(t)

\* C2 (as stated): a trial-mode run that ends without failure leaves exactly 25
\* tensor and 25 label files under output_dir/participant_id/, one pair per
\* (n, i) named "{n}-{i}-{method}", the label of (n, i) holding n and the score
\* of the i-th trial of get_trials(n).
C2_ExactlyPairsOnDisk ==
    (~lecture_video /\ pc = "done") =>
        /\ DOMAIN disk = {TensorFile(t) : t \in Trials} \cup {LabelFile(t) : t \in Trials}
        /\ Cardinality(DOMAIN disk) = 2 * NumLevels * TrialsPerLevel
        /\ \A t \in Trials :
              /\ disk[LabelFile(t)].state = "complete"
              /\ disk[LabelFile(t)].value =
                    [n |-> t[1], score |-> get_trials(session, t[1])[t[2] + 1].score]

\* C2 (amended): a trial-mode run that ends without failure has written exactly
\* 25 tensor and 25 label files, one pair per (n, i) under the name
\* "{n}-{i}-{method}", no two trials sharing a name; the label of (n, i) holds
\* n and the score of the i-th trial of get_trials(n); the files the directory
\* already held under other names are still there, unchanged.
C2_AllPairsWritten ==
    (~lecture_video /\ pc = "done") =>
        /\ written = {TensorFile(t) : t \in Trials} \cup {LabelFile(t) : t \in Trials}
        /\ Cardinality(written) = 2 * NumLevels * TrialsPerLevel
        /\ OthersUntouched
        /\ \A t \in Trials :
              /\ WrotePair(t)
              /\ disk[LabelFile(t)].value =
                    [n |-> t[1], score |-> get_trials(session, t[1])[t[2] + 1].score]

C2_Witness ==
    /\ ~lecture_video
    /\ pc = "done"
    /\ failStage = "none"
    /\ pre \ written # {}
    /\ \E t \in Trials : disk[LabelFile(t)].value.score # 0
    /\ \E t \in Trials : disk[LabelFile(t)].value.score = 0

\* C3: once a write of a tensor or of a label has failed the run is over: no
\* further extraction is made and no file is written.
C3_WriteFailureIsFatal ==
    [][(failStage \in {"save", "label"}) =>
          (pc = "aborted" /\ disk' = disk /\ written' = written
           /\ extractCalls' = extractCalls /\ pc' = pc)]_vars

C3_Witness ==
    /\ ~lecture_video
    /\ failStage = "save"
    /\ pc = "aborted"
    /\ failTrial = <<2, 3>>
    /\ TensorFile(<<2, 3>>) \in written
    /\ disk[TensorFile(<<2, 3>>)].state = "truncated"
    /\ \A t \in Trials : WrotePair(t) <=> (t[1] < 2 \/ (t[1] = 2 /\ t[2] < 3))

\* C4: with the lecture-video flag set, get_trials is never called, at most one
\* extraction is made and the run writes nothing but the tensor
\* "{method}_lecture_video"; a run that ends normally made exactly one
\* extraction, over the lecture window, and wrote exactly that one file.
C4_LectureWritesOneTensor ==
    lecture_video =>
        /\ getTrialsCalls = 0
        /\ extractCalls <= 1
        /\ written \subseteq {File(LectureName(method), "npy")}
        /\ OthersUntouched
        /\ pc = "done" =>
              /\ extractCalls = 1
              /\ written = {File(LectureName(method), "npy")}
              /\ disk[File(LectureName(method), "npy")].state = "complete"
              /\ disk[File(LectureName(method), "npy")].value =
                    process_frames(method, get_video_lecture_timestamps(session)[1],
                                   get_video_lecture_timestamps(session)[2], cropsize)

C4_Witness ==
    /\ lecture_video
    /\ pc = "done"
    /\ extractCalls = 1
    /\ Cardinality(written) = 1
    /\ File(LectureName(method), "npy") \in pre

\* C5: when loading the experiment metadata fails (unparsable log, or a level
\* without exactly 5 trials) the run ends there: no extraction is made and no
\* file is written.
C5_MetadataFailureAbortsEarly ==
    (Malformed(session) \/ failStage = "load") =>
        /\ pc \in {"load", "aborted"}
        /\ extractCalls = 0
        /\ getTrialsCalls = 0
        /\ written = {}
        /\ OthersUntouched

C5_Witness ==
    /\ pc = "aborted"
    /\ failStage = "load"
    /\ session.parsable
    /\ \E l \in Levels : session.count[l] = TrialsPerLevel - 1
    /\ ~lecture_video

\* C6: extractions are started in the order level 1..5, index 0..4; a trial's
\* extraction starts only when every earlier trial has its tensor and label
\* written; at most one trial holds the decoder; and the tensor saved for
\* (n, i) holds the frames of that trial's own start and end timestamps.
C6_SequentialInOrder ==
    ~lecture_video =>
        /\ Len(order) <= NumLevels * TrialsPerLevel
        /\ \A k \in 1..Len(order) : order[k] = ProcessingOrder(k)
        /\ \A k \in 1..(Len(order) - 1) : WrotePair(order[k])
        /\ \A k \in (Len(order) + 1)..(NumLevels * TrialsPerLevel) :
              /\ TensorFile(ProcessingOrder(k)) \notin written
              /\ LabelFile(ProcessingOrder(k)) \notin written
        /\ Cardinality(decoder) <= 1
        /\ decoder \subseteq {<<n, i>>}
        /\ \A k \in 1..Len(order) :
              WroteTensor(order[k]) =>
                  LET trial == get_trials(session, order[k][1])[order[k][2] + 1]
                  IN  disk[TensorFile(order[k])].value =
                          process_frames(method, trial.start, trial.end, cropsize)

C6_Witness ==
    /\ ~lecture_video
    /\ pc = "extracting"
    /\ decoder = {<<3, 2>>}
    /\ Len(order) = 2 * TrialsPerLevel + 3
    /\ WrotePair(<<3, 1>>)
    /\ TensorFile(<<3, 2>>) \notin written

\* C10 (as stated): in every state of a trial-mode run, also one cut short by a
\* failure, a trial that has its label file on disk has its tensor file on disk.
C10_LabelImpliesTensor ==
    ~lecture_video => \A t \in Trials : HasLabel(t) => HasTensor(t)

\* C10 (amended): in every state of a trial-mode run, also one cut short by a
\* failure, a trial whose label file the run has written (even incompletely)
\* has its tensor file, completely written by the run, on disk.
C10_WrittenLabelImpliesTensor ==
    ~lecture_video => \A t \in Trials : LabelFile(t) \in written => WroteTensor(t)

C10_Witness ==
    /\ ~lecture_video
    /\ pc = "aborted"
    /\ failStage = "label"
    /\ failTrial = <<2, 3>>
    /\ LabelFile(failTrial) \in written
    /\ disk[LabelFile(failTrial)].state = "truncated"
    /\ WroteTensor(failTrial)
    /\ WrotePair(<<2, 2>>)

\* C7: after k >= 1 add_subject_data calls the stored matrix has k rows of 25
\* columns, row j holding the scores of the j-th subject added, and
\* average_scores_all_subjects returns k rows of 5 columns.
C7_OneRowPerSubject ==
    (lastOp \in {"add", "avg"} /\ Len(added) >= 1) =>
        /\ data.ndim = 2
        /\ Len(data.rows) = Len(added)
        /\ \A j \in 1..Len(added) :
              /\ DOMAIN data.rows[j] = 0..(NumLevels * TrialsPerLevel - 1)
              /\ data.rows[j] = SubjectRow(added[j])
        /\ lastOp = "avg" =>
              /\ avgOut.ok
              /\ Len(avgOut.rows) = Len(added)
              /\ \A j \in 1..Len(added) : DOMAIN avgOut.rows[j] = Levels

\* C9: for every subject added, the score of trial i of level n is in column
\* (n-1)*5+i of that subject's row, and entry (subject, n) of
\* average_scores_all_subjects is the sum of that subject's five scores of
\* level n divided by 5.
C9_ColumnLayoutAndMean ==
    lastOp \in {"add", "avg"} =>
        \A j \in 1..Len(added) :
            /\ j <= Len(data.rows)
            /\ \A l \in Levels : \A k \in 0..(TrialsPerLevel - 1) :
                  data.rows[j][(l - 1) * 5 + k] = Score(added[j], l, k)
            /\ lastOp = "avg" =>
                  /\ avgOut.ok
                  /\ j <= Len(avgOut.rows)
                  /\ \A l \in Levels :
                        avgOut.rows[j][l] =
                            [sum |-> Score(added[j], l, 0) + Score(added[j], l, 1)
                                     + Score(added[j], l, 2) + Score(added[j], l, 3)
                                     + Score(added[j], l, 4),
                             count |-> 5]

\* C8: within a chunk every frame has a box: the detected one, else the box of
\* the latest successfully detected earlier frame of the same chunk, else the
\* centered full-frame box; the chunk yields as many boxes as it has frames.
C8_FallbackWithinChunk ==
    /\ Len(chunkOut) = Len(chunkIn)
    /\ \A f \in 1..Len(chunkIn) :
          LET earlier == {g \in 1..(f - 1) : chunkIn[g].found}
          IN  chunkOut[f] =
                  IF chunkIn[f].found THEN chunkIn[f].box
                  ELSE IF earlier # {}
                       THEN chunkIn[CHOOSE g \in earlier : \A h \in earlier : h <= g].box
                       ELSE CenteredBox

C8_Witness ==
    /\ chunkNo = 2
    /\ prevBoxes # {}
    /\ Len(chunkIn) = MaxChunkLen
    /\ \A f \in 1..Len(chunkIn) : ~chunkIn[f].found
    /\ \A f \in 1..Len(chunkOut) : chunkOut[f] = CenteredBox

====
